---- MODULE Spec2Model ----
(***************************************************************************)
(* Beholder: a daemon that listens to the Redis Sentinel channel           *)
(* '+switch-master' and, on each message, rewrites the server lists of a   *)
(* twemproxy configuration file and restarts twemproxy.                    *)
(* Source: src/src/beholder.py.                                            *)
(*                                                                         *)
(* A Python string is a sequence of one-character strings, so that         *)
(* str.split and string concatenation are computed, not assumed.           *)
(***************************************************************************)
EXTENDS Integers, Sequences, FiniteSets, TLC

\* ------------------------------------------------------------------ bounds
\* Most server entries a proxy configuration document holds (all pools).
MaxEntries == 2
\* Cap of retry_count for the unlimited-retry configurations (limit <= 0).
MaxAttempts == 4
\* Most messages of type 'message' a run of the daemon receives.
MaxEvents == 2

\* ----------------------------------------------------------------- strings
Range(s) == {s[i] : i \in 1..Len(s)}

\* Python str.split(sep) with a one-character separator: cuts at every
\* occurrence, keeps empty pieces, always returns at least one piece.
RECURSIVE split(_, _)
split(s, sep) ==
    IF sep \notin Range(s)
    THEN <<s>>
    ELSE LET i == CHOOSE k \in 1..Len(s) :
                      s[k] = sep /\ \A j \in 1..(k - 1) : s[j] # sep
         IN  <<SubSeq(s, 1, i - 1)>> \o split(SubSeq(s, i + 1, Len(s)), sep)

\* The whitespace-separated tokens of a string (the non-empty pieces): the
\* tokens the documentation of the payload counts. The program itself cuts
\* with split(s, " ").
RECURSIVE NonEmpty(_)
NonEmpty(ss) ==
    IF ss = <<>> THEN <<>>
    ELSE IF Head(ss) = <<>> THEN NonEmpty(Tail(ss))
    ELSE <<Head(ss)>> \o NonEmpty(Tail(ss))

WhitespaceTokens(s) == NonEmpty(split(s, " "))

\* ' '.join(tokens)
RECURSIVE Join(_)
Join(ts) ==
    IF ts = <<>> THEN <<>>
    ELSE IF Len(ts) = 1 THEN ts[1]
    ELSE ts[1] \o <<" ">> \o Join(Tail(ts))

\* ------------------------------------------------------- the input domains
Hosts == {<<"a">>, <<"b">>}
Ports == {<<"1">>, <<"2">>}
Weight == <<"7">>
ServerName == <<"n">>
MasterName == <<"m">>

\* A twemproxy server line host:port:weight[ name].
Line(h, p, w) == h \o <<":">> \o p \o <<":">> \o w
NamedLine(h, p, w, n) == Line(h, p, w) \o <<" ">> \o n

\* A line with no weight field.
NoWeightLine == <<"a">> \o <<":">> \o <<"1">>

WellFormedEntries ==
    {Line(<<"a">>, <<"1">>, Weight), NamedLine(<<"a">>, <<"1">>, Weight, ServerName),
     Line(<<"b">>, <<"2">>, Weight), NamedLine(<<"b">>, <<"2">>, Weight, ServerName)}

Entries == WellFormedEntries \cup {NoWeightLine}

\* --------------------------------------------------- the decoded documents
\* What yaml.safe_load returns for the proxy configuration: a mapping
\* pool name -> mapping with a 'servers' list. A mapping is kept with its keys
\* in file order: a document is a sequence of pools, a pool is
\* [name, fields (its keys, in order), servers (the value of 'servers')].
\* The values of the other keys are not read or changed by the program and
\* are left out.
KeyOrder == <<"alpha", "beta", "listen", "servers">>
KeyRank(k) == CHOOSE i \in 1..Len(KeyOrder) : KeyOrder[i] = k

\* sorted(keys): insertion of each key at its place.
RECURSIVE SortKeys(_)
Insert(k, sorted) ==
    LET before == SelectSeq(sorted, LAMBDA x : KeyRank(x) <= KeyRank(k))
        after == SelectSeq(sorted, LAMBDA x : KeyRank(x) > KeyRank(k))
    IN  before \o <<k>> \o after
SortKeys(ks) == IF ks = <<>> THEN <<>> ELSE Insert(Head(ks), SortKeys(Tail(ks)))

\* yaml.dump(proxy_data, f, default_flow_style=False): the keys of every
\* mapping are written in sorted order (sort_keys defaults to True); lists
\* keep their order and strings their characters.
PoolNamed(doc, n) == doc[CHOOSE i \in 1..Len(doc) : doc[i].name = n]
DumpPool(pool) == [pool EXCEPT !.fields = SortKeys(pool.fields)]
yaml_dump(doc) ==
    LET names == SortKeys([i \in 1..Len(doc) |-> doc[i].name])
    IN  [i \in 1..Len(doc) |-> DumpPool(PoolNamed(doc, names[i]))]

\* The configuration file: a YAML mapping ("doc", held as safe_load decodes
\* it), an empty file (safe_load returns None) or text that is not YAML.
DocFile(doc) == [kind |-> "doc", doc |-> doc]
EmptyFile == [kind |-> "empty", doc |-> <<>>]
GarbageFile == [kind |-> "garbage", doc |-> <<>>]

\* --------------------------------------------------------- _update_masters
server_data(server) == split(server, " ")
url_data(server) == split(server_data(server)[1], ":")
host(server) == url_data(server)[1]
port(server) == url_data(server)[2]
number(server) == url_data(server)[3]
\* name = '' unless server_data[1] exists
name(server) == IF Len(server_data(server)) >= 2 THEN server_data(server)[2] ELSE <<>>

\* url_data[1] or url_data[2] raises IndexError
EntryRaises(server) == Len(url_data(server)) < 3

\* A comparison of the host alone.
IsOldMaster_HostOnly(server, old_server, old_port) == host(server) = old_server

\* "Check if the current server is the old master server"
IsOldMaster(server, old_server, old_port) ==
    host(server) = old_server /\ port(server) = old_port

\* host + ':' + str(port) + ':' + str(number) + ' ' + name
NewEntry(server, new_server, new_port) ==
    new_server \o <<":">> \o new_port \o <<":">> \o number(server) \o <<" ">> \o name(server)

\* The new string assigned to the loop variable and not to the list.
RewriteEntry_LoopVariableOnly(server, old_server, old_port, new_server, new_port) == server

\* The body of the inner loop: proxy_data[proxy]['servers'][i] afterwards.
RewriteEntry(server, old_server, old_port, new_server, new_port) ==
    IF IsOldMaster(server, old_server, old_port)
    THEN NewEntry(server, new_server, new_port)
    ELSE server

RewritePool(pool, old_server, old_port, new_server, new_port) ==
    [pool EXCEPT !.servers =
        [i \in 1..Len(pool.servers) |->
            RewriteEntry(pool.servers[i], old_server, old_port, new_server, new_port)]]

\* The two loops over proxy_data, for a document in which no step raises.
RewriteDoc(doc, old_server, old_port, new_server, new_port) ==
    [p \in 1..Len(doc) |-> RewritePool(doc[p], old_server, old_port, new_server, new_port)]

AnyOldMaster(doc, old_server, old_port) ==
    \E p \in 1..Len(doc) : \E i \in 1..Len(doc[p].servers) :
        IsOldMaster(doc[p].servers[i], old_server, old_port)

\* The exception the loops raise on a pool, "" when none does:
\* proxy_data[proxy]['servers'] raises KeyError, an entry IndexError.
PoolError(pool) ==
    IF "servers" \notin Range(pool.fields) THEN "KeyError"
    ELSE IF \E i \in 1..Len(pool.servers) : EntryRaises(pool.servers[i]) THEN "IndexError"
    ELSE ""

\* The first exception in iteration order.
RECURSIVE DocError(_)
DocError(doc) ==
    IF doc = <<>> THEN ""
    ELSE IF PoolError(Head(doc)) # "" THEN PoolError(Head(doc))
    ELSE DocError(Tail(doc))

\* What the loops do to the value safe_load returned: raise (None is not
\* iterable: TypeError), or rewrite the matching entries in place.
LoopsError(f) == IF f.kind = "empty" THEN "TypeError" ELSE DocError(f.doc)

\* The outcomes of opening the file for writing and dumping into it.
WriteOutcomes == {"ok", "open_failed", "truncated"}

\* The file after the with-block of the write.
Written(f, data, wr) ==
    CASE wr = "ok" -> DocFile(yaml_dump(data))
      [] wr = "open_failed" -> f
      [] wr = "truncated" -> EmptyFile

\* A write failure that does not clear b_updated.
Changed_IgnoresWriteFailure(b_upd, wr) == b_upd

\* b_updated when _update_masters returns: a failed write sets it to False.
Changed(b_upd, wr) == b_upd /\ wr = "ok"

\* A load that fails only when the file cannot be opened.
LoadFails_OnlyIOError(f, readable) == ~readable

\* The try block of the load raises: open() fails, or safe_load cannot
\* decode the content.
LoadFails(f, readable) == ~readable \/ f.kind = "garbage"

\* One call of _update_masters on file f: readable says whether open() for
\* reading succeeds, wr how the write goes. ret is the value returned
\* ("None" when the load fails), exc the exception that leaves the call.
update_masters(f, old_server, old_port, new_server, new_port, readable, wr) ==
    IF LoadFails(f, readable)
    THEN [ret |-> "None", exc |-> "", file |-> f, wr |-> ""]
    ELSE IF LoopsError(f) # ""
    THEN [ret |-> "", exc |-> LoopsError(f), file |-> f, wr |-> ""]
    ELSE LET data == RewriteDoc(f.doc, old_server, old_port, new_server, new_port)
             b_upd == AnyOldMaster(f.doc, old_server, old_port)
         IN  [ret |-> IF Changed(b_upd, wr) THEN "True" ELSE "False",
              exc |-> "", file |-> Written(f, data, wr), wr |-> wr]

\* ------------------------------------------------ the configuration files
PoolOrders == {<<"alpha">>, <<"beta">>, <<"alpha", "beta">>, <<"beta", "alpha">>}
FieldOrders == {<<"listen", "servers">>, <<"servers", "listen">>, <<"listen">>}
ServerLists == UNION {[1..k -> Entries] : k \in 0..MaxEntries}
Pools(n) ==
    {pl \in [name : {n}, fields : FieldOrders, servers : ServerLists] :
        "servers" \notin Range(pl.fields) => pl.servers = <<>>}
Docs ==
    {<<>>}
    \cup {<<pl>> : pl \in Pools("alpha") \cup Pools("beta")}
    \cup {d \in (Pools("alpha") \X Pools("beta")) \cup (Pools("beta") \X Pools("alpha")) :
            Len(d[1].servers) + Len(d[2].servers) <= MaxEntries}
Files == {DocFile(d) : d \in Docs} \cup {EmptyFile, GarbageFile}

\* ------------------------------------------------------------------- state
VARIABLES
    pc,             \* where the main thread is
    limit,          \* config: beholder_connect_retry_count
    stop_event,     \* self._stop_event
    b_connected,    \* _connect: b_connected
    retry_count,    \* _connect: retry_count
    pubsub,         \* self._pubsub: "None", "unsubscribed", "subscribed", "closed"
    connect_ret,    \* what _connect returned: "", "True", "False"
    failures,       \* history: failed attempts of this _connect call
    sleeps,         \* history: backoff sleeps of this _connect call
    decision,       \* history: the last retry decision: "", "retry", "stop"
    file,           \* the twemproxy configuration file
    data,           \* str(message['data']) of the message being handled
    proxy_data,     \* _update_masters: proxy_data after the loops
    loaded,         \* history: proxy_data as safe_load returned it
    b_updated,      \* _update_masters: b_updated
    ret,            \* what _update_masters returned: "", "None", "True", "False"
    exc,            \* the exception that left the handler, "" when none
    read,           \* history: the file was opened for reading in this iteration
    write_outcome,  \* history: how the write of this iteration went, "" when none
    reloads,        \* history: runs of the restart command in this iteration
    log,            \* history: what the handlers logged in this iteration
    file0,          \* history: the file when the handler of this iteration started
    first,          \* history: the result of the call before a repeated call
    pidfile,        \* the pidfile: "absent", "other" (another instance's), "own"
    exit_status,    \* the status the process exited with, -1 while it runs
    received,       \* history: messages of type 'message' received so far
    effect_of       \* history: the number of the message the last write or reload was for

vars == <<pc, limit, stop_event, b_connected, retry_count, pubsub, connect_ret,
          failures, sleeps, decision, file, data, proxy_data, loaded, b_updated,
          ret, exc, read, write_outcome, reloads, log, file0, first,
          pidfile, exit_status, received, effect_of>>

connectVars == <<limit, b_connected, retry_count, pubsub, connect_ret,
                 failures, sleeps, decision>>
eventVars == <<data, proxy_data, loaded, b_updated, ret, exc, read,
               write_outcome, reloads, log>>
processVars == <<pidfile, exit_status>>
orderVars == <<received, effect_of>>
\* No call of _update_masters precedes the current one.
NoCall == [ret |-> "", wr |-> ""]

\* switch_master_info = str(message['data']).split(' ')
switch_master_info == split(data, " ")
old_ip == switch_master_info[2]
old_port == switch_master_info[3]
new_ip == switch_master_info[4]
new_port == switch_master_info[5]

\* ---------------------------------------------------------------- messages
\* The payload Sentinel publishes: 'master old_ip old_port new_ip new_port'.
SwitchPayload(o, op, n, np) == Join(<<MasterName, o, op, n, np>>)
SwitchPayloads ==
    {SwitchPayload(o, op, n, np) : o \in Hosts, op \in Ports, n \in Hosts, np \in Ports}
ThreeTokens == Join(<<MasterName, <<"a">>, <<"1">>>>)
FourTokens == Join(<<MasterName, <<"a">>, <<"1">>, <<"b">>>>)
SixTokens == Join(<<MasterName, <<"a">>, <<"1">>, <<"b">>, <<"2">>, <<"x">>>>)
\* Three tokens separated by two spaces each.
DoubleSpaced == <<"m", " ", " ", "a", " ", " ", "1">>
Payloads == SwitchPayloads \cup {ThreeTokens, FourTokens, SixTokens, DoubleSpaced}

\* What get_message returns: None, a message of another type (the
\* subscription acknowledgement), or a message of type 'message'.
Messages ==
    {[type |-> "None", data |-> <<>>], [type |-> "subscribe", data |-> <<"1">>]}
    \cup {[type |-> "message", data |-> d] : d \in Payloads}

\* ------------------------------------------------------------ the daemon
Limits == {-1, 0, 1, 3}

GoodFile ==
    DocFile(<<[name |-> "beta", fields |-> <<"servers", "listen">>,
               servers |-> <<NamedLine(<<"a">>, <<"1">>, Weight, ServerName)>>],
              [name |-> "alpha", fields |-> <<"listen", "servers">>,
               servers |-> <<Line(<<"b">>, <<"2">>, Weight)>>]>>)
NoServersFile == DocFile(<<[name |-> "alpha", fields |-> <<"listen">>, servers |-> <<>>]>>)
NoWeightFile ==
    DocFile(<<[name |-> "alpha", fields |-> <<"listen", "servers">>,
               servers |-> <<NoWeightLine>>]>>)
DaemonFiles == {GoodFile, NoServersFile, NoWeightFile, EmptyFile, GarbageFile}

NoEvent ==
    /\ data = <<>> /\ proxy_data = <<>> /\ loaded = <<>> /\ b_updated = FALSE
    /\ ret = "" /\ exc = "" /\ read = FALSE /\ write_outcome = "" /\ reloads = 0
    /\ log = {}

ForgetEvent ==
    /\ data' = <<>> /\ proxy_data' = <<>> /\ loaded' = <<>> /\ b_updated' = FALSE
    /\ ret' = "" /\ exc' = "" /\ read' = FALSE /\ write_outcome' = "" /\ reloads' = 0
    /\ log' = {}

\* The process starts: the pidfile is absent or another instance's.
Init ==
    /\ pc = "main"
    /\ pidfile \in {"absent", "other"}
    /\ exit_status = -1
    /\ received = 0
    /\ effect_of = 0
    /\ limit \in Limits
    /\ stop_event = FALSE
    /\ b_connected = FALSE
    /\ retry_count = 0
    /\ pubsub = "None"
    /\ connect_ret = ""
    /\ failures = 0 /\ sleeps = 0 /\ decision = ""
    /\ file \in DaemonFiles
    /\ file0 = file
    /\ first = NoCall
    /\ NoEvent

\* __main__: exit with status 1 when the pidfile exists, else create it.
main_start ==
    /\ pc = "main"
    /\ IF pidfile = "other"
       THEN pc' = "exited" /\ exit_status' = 1 /\ pidfile' = pidfile
       ELSE pc' = "construct" /\ exit_status' = exit_status /\ pidfile' = "own"
    /\ UNCHANGED <<stop_event, connectVars, file, file0, first, eventVars, orderVars>>

\* Beholder.__init__: the configuration and the log file are opened, the
\* handler of SIGTERM is installed; execute() is called and enters _connect().
construct ==
    /\ pc = "construct"
    /\ \E ok \in BOOLEAN :
        IF ok THEN pc' = "connect_while" /\ exc' = exc
              ELSE pc' = "crashed" /\ exc' = "IOError"
    /\ UNCHANGED <<stop_event, connectVars, file, file0, first, data, proxy_data, loaded,
                   b_updated, ret, read, write_outcome, reloads, log, processVars,
                   orderVars>>

\* _signal_termination_handler: runs between any two steps of the main thread.
signal_termination_handler ==
    /\ pc \notin {"main", "construct", "exited"}
    /\ stop_event' = TRUE
    /\ UNCHANGED <<pc, connectVars, file, file0, first, eventVars, processVars, orderVars>>

\* _connect, the loop condition; when it is false, return b_connected.
connect_while ==
    /\ pc = "connect_while"
    /\ IF ~stop_event /\ ~b_connected
       THEN pc' = "connect_try" /\ connect_ret' = connect_ret
       ELSE pc' = "execute_if" /\ connect_ret' = IF b_connected THEN "True" ELSE "False"
    /\ UNCHANGED <<limit, stop_event, b_connected, retry_count, pubsub, failures,
                   sleeps, decision, file, file0, first, eventVars, processVars, orderVars>>

\* The comparison with > in place of >=.
MaxRetriesArrived_OffByOne(lim, count) == lim > 0 /\ count > lim

\* "Check if maximum retry count is arrived"
MaxRetriesArrived(lim, count) == lim > 0 /\ count >= lim

\* _connect, the try block succeeds: else-branch.
connect_ok ==
    /\ pc = "connect_try"
    /\ pubsub' = "subscribed"
    /\ b_connected' = TRUE
    /\ pc' = "connect_while"
    /\ UNCHANGED <<limit, stop_event, retry_count, connect_ret, failures, sleeps,
                   decision, file, file0, first, eventVars, processVars, orderVars>>

\* _connect, the try block raises (in StrictRedis() before self._pubsub is
\* assigned, or in subscribe() after): except-branch.
connect_fail ==
    /\ pc = "connect_try"
    /\ retry_count < MaxAttempts \/ MaxRetriesArrived(limit, retry_count)
    /\ \E at \in {"StrictRedis", "subscribe"} :
          pubsub' = IF at = "subscribe" THEN "unsubscribed" ELSE pubsub
    /\ failures' = failures + 1
    /\ IF MaxRetriesArrived(limit, retry_count)
       THEN /\ stop_event' = TRUE
            /\ decision' = "stop"
            /\ retry_count' = retry_count
            /\ pc' = "connect_while"
       ELSE /\ stop_event' = stop_event
            /\ decision' = "retry"
            /\ retry_count' = retry_count + 1
            /\ pc' = "backoff"
    /\ UNCHANGED <<limit, b_connected, connect_ret, sleeps, file, file0, first, eventVars, processVars, orderVars>>

\* time.sleep(connect_retry_interval / 1000)
backoff ==
    /\ pc = "backoff"
    /\ sleeps' = sleeps + 1
    /\ pc' = "connect_while"
    /\ UNCHANGED <<limit, stop_event, b_connected, retry_count, pubsub, connect_ret,
                   failures, decision, file, file0, first, eventVars, processVars, orderVars>>

\* execute entering its loop whatever _connect returned.
execute_if_AlwaysLoops ==
    /\ pc = "execute_if"
    /\ pc' = "loop"
    /\ retry_count' = 0 /\ failures' = 0 /\ sleeps' = 0 /\ decision' = ""
    /\ UNCHANGED <<limit, stop_event, b_connected, pubsub, connect_ret, file, file0, first, eventVars, processVars, orderVars>>

\* execute: if self._connect(). The locals of _connect are gone.
execute_if ==
    /\ pc = "execute_if"
    /\ pc' = IF connect_ret = "True" THEN "loop" ELSE "log_stopped"
    /\ retry_count' = 0 /\ failures' = 0 /\ sleeps' = 0 /\ decision' = ""
    /\ UNCHANGED <<limit, stop_event, b_connected, pubsub, connect_ret, file, file0, first, eventVars, processVars, orderVars>>

\* execute: while not self._stop_event.is_set()
loop ==
    /\ pc = "loop"
    /\ pc' = IF stop_event THEN "log_stopped" ELSE "poll"
    /\ UNCHANGED <<stop_event, connectVars, file, file0, first, eventVars, processVars, orderVars>>

\* execute: get_message returns nothing, or a message of another type.
poll_none ==
    /\ pc = "poll"
    /\ \E m \in Messages : m.type # "message"
    /\ pc' = "sleep"
    /\ UNCHANGED <<stop_event, connectVars, file, file0, first, eventVars, processVars, orderVars>>

\* A listener that takes the next message while the restart for the current
\* one is still to run.
poll_message_WhileReloadPending ==
    /\ pc \in {"poll", "restart"}
    /\ received < MaxEvents
    /\ received' = received + 1
    /\ \E m \in Messages :
        /\ m.type = "message"
        /\ data' = m.data
        /\ LET info == split(m.data, " ")
           IN  IF Len(info) > 3
               THEN IF Len(info) < 5
                    THEN pc' = "crashed" /\ exc' = "IndexError" /\ log' = log
                    ELSE pc' = "load" /\ exc' = exc /\ log' = log
               ELSE /\ pc' = "sleep"
                    /\ exc' = exc
                    /\ log' = log \cup {"warning: Wrong number of parameters"}
    /\ UNCHANGED <<stop_event, connectVars, file, file0, first, proxy_data, loaded,
                   b_updated, ret, read, write_outcome, reloads, processVars, effect_of>>

\* execute: get_message returns a message; _switch_master up to the call of
\* _update_masters. With 4 pieces switch_master_info[4] raises IndexError.
poll_message ==
    /\ pc = "poll"
    /\ received < MaxEvents
    /\ received' = received + 1
    /\ \E m \in Messages :
        /\ m.type = "message"
        /\ data' = m.data
        /\ LET info == split(m.data, " ")
           IN  IF Len(info) > 3
               THEN IF Len(info) < 5
                    THEN pc' = "crashed" /\ exc' = "IndexError" /\ log' = log
                    ELSE pc' = "load" /\ exc' = exc /\ log' = log
               ELSE /\ pc' = "sleep"
                    /\ exc' = exc
                    /\ log' = log \cup {"warning: Wrong number of parameters"}
    /\ UNCHANGED <<stop_event, connectVars, file, file0, first, proxy_data, loaded,
                   b_updated, ret, read, write_outcome, reloads, processVars, effect_of>>

\* _update_masters: open and safe_load, then the loops over proxy_data.
\* A failed load returns None, and _switch_master logs the update error.
load ==
    /\ pc = "load"
    /\ read' = TRUE
    /\ \E readable \in BOOLEAN :
        IF LoadFails(file, readable)
        THEN /\ ret' = "None"
             /\ log' = log \cup {"exception: Could not open the twemproxy configuration file",
                                 "error: Master update error"}
             /\ pc' = "sleep"
             /\ UNCHANGED <<proxy_data, loaded, b_updated, exc>>
        ELSE IF LoopsError(file) # ""
        THEN /\ exc' = LoopsError(file)
             /\ pc' = "crashed"
             /\ UNCHANGED <<proxy_data, loaded, b_updated, ret, log>>
        ELSE /\ loaded' = file.doc
             /\ proxy_data' = RewriteDoc(file.doc, old_ip, old_port, new_ip, new_port)
             /\ b_updated' = AnyOldMaster(file.doc, old_ip, old_port)
             /\ pc' = "write"
             /\ UNCHANGED <<ret, exc, log>>
    /\ UNCHANGED <<stop_event, connectVars, file, file0, first, data, write_outcome,
                   reloads, processVars, orderVars>>

\* _update_masters: open for writing and yaml.dump, return b_updated;
\* _switch_master: the branch on the returned value.
write ==
    /\ pc = "write"
    /\ effect_of' = received
    /\ \E wr \in WriteOutcomes :
        /\ write_outcome' = wr
        /\ file' = Written(file, proxy_data, wr)
        /\ b_updated' = Changed(b_updated, wr)
        /\ ret' = IF Changed(b_updated, wr) THEN "True" ELSE "False"
        /\ IF Changed(b_updated, wr)
           THEN pc' = "restart" /\ log' = log
           ELSE /\ pc' = "sleep"
                /\ log' = log \cup {"error: Master update error"}
                              \cup (IF wr = "ok" THEN {}
                                    ELSE {"warning: Could not updated the twemproxy configuration file"})
    /\ UNCHANGED <<stop_event, connectVars, file0, first, data, proxy_data, loaded, exc,
                   read, reloads, processVars, received>>

\* A restart that is given up when the stop event is set.
restart_twemproxy_UnlessStopping ==
    /\ pc = "restart"
    /\ reloads' = IF stop_event THEN reloads ELSE reloads + 1
    /\ effect_of' = received
    /\ log' = log \cup {"info: Master changed successfully"}
    /\ pc' = "sleep"
    /\ UNCHANGED <<stop_event, connectVars, file, file0, first, data, proxy_data,
                   loaded, b_updated, ret, exc, read, write_outcome, processVars, received>>

\* _restart_twemproxy: os.system(restart_command), then the info line.
restart_twemproxy ==
    /\ pc = "restart"
    /\ reloads' = reloads + 1
    /\ effect_of' = received
    /\ log' = log \cup {"info: Master changed successfully"}
    /\ pc' = "sleep"
    /\ UNCHANGED <<stop_event, connectVars, file, file0, first, data, proxy_data,
                   loaded, b_updated, ret, exc, read, write_outcome, processVars, received>>

\* execute: time.sleep(0.001); the iteration's locals are gone.
sleep ==
    /\ pc = "sleep"
    /\ pc' = "loop"
    /\ ForgetEvent
    /\ file0' = file
    /\ UNCHANGED <<stop_event, connectVars, file, first, processVars, orderVars>>

\* execute: self._logger.info('Beholder stopped')
log_stopped ==
    /\ pc = "log_stopped"
    /\ pc' = "stopped"
    /\ UNCHANGED <<stop_event, connectVars, file, file0, first, eventVars, processVars,
                   orderVars>>

\* __main__, the finally block with the exception, if any, replaced by SystemExit.
main_finally_Reraises ==
    /\ pc \in {"stopped", "crashed"}
    /\ pidfile' = "absent"
    /\ exit_status' = IF pc = "crashed" THEN 1 ELSE 0
    /\ pc' = "exited"
    /\ UNCHANGED <<stop_event, connectVars, file, file0, first, eventVars, orderVars>>

\* __main__, the finally block: pidfile_helper.delete() and sys.exit(0),
\* after execute() returned and after an exception left the try block.
main_finally ==
    /\ pc \in {"stopped", "crashed"}
    /\ pidfile' = "absent"
    /\ exit_status' = 0
    /\ pc' = "exited"
    /\ UNCHANGED <<stop_event, connectVars, file, file0, first, eventVars, orderVars>>

\* Beholder.__del__, when the interpreter collects the object as it exits.
del ==
    /\ pc = "exited"
    /\ pubsub \in {"unsubscribed", "subscribed"}
    /\ pubsub' = "closed"
    /\ UNCHANGED <<pc, limit, stop_event, b_connected, retry_count, connect_ret, failures,
                   sleeps, decision, file, file0, first, eventVars, processVars,
                   orderVars>>

Next ==
    \/ main_start
    \/ construct
    \/ signal_termination_handler
    \/ connect_while
    \/ connect_ok
    \/ connect_fail
    \/ backoff
    \/ execute_if
    \/ loop
    \/ poll_none
    \/ poll_message
    \/ load
    \/ write
    \/ restart_twemproxy
    \/ sleep
    \/ log_stopped
    \/ main_finally
    \/ del

Spec == Init /\ [][Next]_vars

\* The main thread: every step but the signal handler's.
MainThread ==
    \/ main_start \/ construct \/ main_finally
    \/ connect_while \/ connect_ok \/ connect_fail \/ backoff \/ execute_if
    \/ loop \/ poll_none \/ poll_message \/ load \/ write \/ restart_twemproxy
    \/ sleep \/ log_stopped

\* Every external call returns, and the interpreter keeps running the thread.
FairSpec == Spec /\ WF_vars(MainThread)

\* ------------------------------------------- _update_masters, call by call
\* A listening daemon calls _update_masters on a configuration file, and
\* calls it once more with the same addresses.
InitUpdate ==
    /\ pc = "call"
    /\ limit = 0
    /\ stop_event = FALSE
    /\ b_connected = TRUE
    /\ retry_count = 0
    /\ pubsub = "subscribed"
    /\ connect_ret = "True"
    /\ failures = 0 /\ sleeps = 0 /\ decision = ""
    /\ file \in Files
    /\ file0 = file
    /\ first = NoCall
    /\ NoEvent
    /\ pidfile = "own"
    /\ exit_status = -1
    /\ received = 0
    /\ effect_of = 0

\* The whole of _update_masters(o, op, n, np), as one step.
Call(o, op, n, np) ==
    \E readable \in BOOLEAN, wr \in WriteOutcomes :
        LET r == update_masters(file, o, op, n, np, readable, wr)
        IN  /\ data' = SwitchPayload(o, op, n, np)
            /\ file0' = file
            /\ file' = r.file
            /\ ret' = r.ret
            /\ exc' = r.exc
            /\ write_outcome' = r.wr
            /\ read' = TRUE
            /\ loaded' = IF r.wr # "" THEN file.doc ELSE <<>>
            /\ proxy_data' = IF r.wr # "" THEN RewriteDoc(file.doc, o, op, n, np) ELSE <<>>
            /\ b_updated' = (r.ret = "True")
            /\ pc' = IF r.exc # "" THEN "raised" ELSE "returned"
            /\ UNCHANGED <<stop_event, connectVars, reloads, log, processVars, orderVars>>

\* The new master is one of the two addresses the entries hold, so that a
\* rewrite can produce an address another entry has, and old = new happens.
NewMasters == {<<h, p>> \in Hosts \X Ports : Line(h, p, Weight) \in Entries}

update_masters_call ==
    /\ pc = "call"
    /\ first' = first
    /\ \E o \in Hosts, op \in Ports, nm \in NewMasters : Call(o, op, nm[1], nm[2])

\* After a call that loaded and wrote the file, the same call once more.
update_masters_again ==
    /\ pc = "returned"
    /\ first = NoCall
    /\ write_outcome = "ok"
    /\ first' = [ret |-> ret, wr |-> write_outcome]
    /\ Call(old_ip, old_port, new_ip, new_port)

NextUpdate == update_masters_call \/ update_masters_again

SpecUpdate == InitUpdate /\ [][NextUpdate]_vars

\* ------------------------------------------------ claims on _update_masters
PoolNames(doc) == {doc[i].name : i \in 1..Len(doc)}
ServersOf(doc) == [n \in PoolNames(doc) |-> PoolNamed(doc, n).servers]
Matches(server) == host(server) = old_ip /\ port(server) = old_port
\* An entry of the shape h:p:w or h:p:w name.
WellFormed(server) == Len(url_data(server)) = 3 /\ Len(server_data(server)) <= 2
\* The entry with its host:port replaced and every other character kept.
Substituted(server) ==
    new_ip \o <<":">> \o new_port
        \o SubSeq(server, Len(host(server)) + Len(port(server)) + 2, Len(server))

\* C1: when load and write both succeed, every entry of every pool whose
\* (host, port) equals (old_ip, old_port) has become (new_ip, new_port) with
\* its weight and name kept, and every other entry is the same string at the
\* same index of the same pool; no pool or entry is added or removed.
C1_RewritesExactlyTheMatches ==
    write_outcome = "ok" =>
        /\ Len(file.doc) = Len(loaded)
        /\ PoolNames(file.doc) = PoolNames(loaded)
        /\ \A p \in 1..Len(loaded) :
            LET before == loaded[p].servers
                after == PoolNamed(file.doc, loaded[p].name).servers
            IN  /\ Len(after) = Len(before)
                /\ \A i \in 1..Len(before) :
                    IF Matches(before[i])
                    THEN /\ host(after[i]) = new_ip
                         /\ port(after[i]) = new_port
                         /\ number(after[i]) = number(before[i])
                         /\ name(after[i]) = name(before[i])
                    ELSE after[i] = before[i]

\* A call that rewrote a matching entry in each of two pools.
C1_Witness ==
    /\ write_outcome = "ok"
    /\ ret = "True"
    /\ Len(loaded) = 2
    /\ \A p \in 1..2 : \E i \in 1..Len(loaded[p].servers) : Matches(loaded[p].servers[i])
    /\ <<new_ip, new_port>> # <<old_ip, old_port>>

\* C2: the document written has the pools in the order of the document
\* loaded and, in each pool, the fields in the same order; the entries differ
\* only by the host:port substitution in the matching ones.
C2_WrittenInLoadedOrder ==
    write_outcome = "ok" =>
        /\ Len(file.doc) = Len(loaded)
        /\ \A p \in 1..Len(loaded) :
            /\ file.doc[p].name = loaded[p].name
            /\ file.doc[p].fields = loaded[p].fields
            /\ Len(file.doc[p].servers) = Len(loaded[p].servers)
            /\ \A i \in 1..Len(loaded[p].servers) :
                file.doc[p].servers[i] =
                    IF Matches(loaded[p].servers[i])
                    THEN Substituted(loaded[p].servers[i])
                    ELSE loaded[p].servers[i]

\* C3: a matching entry h:p:w is rewritten to new_ip:new_port:w and a
\* matching entry h:p:w name to new_ip:new_port:w name, character for
\* character.
C3_RewrittenInOriginalShape ==
    write_outcome = "ok" =>
        \A p \in 1..Len(loaded) : \A i \in 1..Len(loaded[p].servers) :
            LET before == loaded[p].servers[i]
                after == PoolNamed(file.doc, loaded[p].name).servers[i]
            IN  (Matches(before) /\ WellFormed(before)) =>
                    after = IF Len(server_data(before)) = 1
                            THEN Line(new_ip, new_port, number(before))
                            ELSE NamedLine(new_ip, new_port, number(before), name(before))

ListeningPcs == {"loop", "poll", "load", "write", "restart", "sleep"}
HandlingMessage == data # <<>>

\* C5: the restart command runs once in an iteration whose reconciliation
\* returned True (an entry matched and the write succeeded) and not at all in
\* any other iteration.
C5_ReloadOncePerChange ==
    /\ reloads <= 1
    /\ pc = "sleep" => reloads = (IF ret = "True" THEN 1 ELSE 0)
    /\ ret = "True" => (write_outcome = "ok" /\ AnyOldMaster(loaded, old_ip, old_port))
    /\ reloads = 1 => ret = "True"
    /\ (ret # "True" /\ pc # "write") => reloads = 0

\* An iteration that has restarted twemproxy.
C5_Witness == pc = "sleep" /\ reloads = 1 /\ ret = "True"

\* C6: once listening, the loop is left only with the stop event set; no
\* payload and no content of the configuration file ends it.
C6_LoopEndsOnlyOnStop ==
    (connect_ret = "True" /\ pc \notin ListeningPcs /\ pc # "execute_if")
        => (stop_event /\ exc = "")

\* C7: a payload of 4 or more tokens is handled as a switch-master event:
\* _update_masters is called (the file is opened for reading) with tokens
\* 2 to 5.
C7_FourOrMoreTokensAccepted ==
    (HandlingMessage /\ Len(WhitespaceTokens(data)) >= 4 /\ pc # "load") =>
        /\ read
        /\ old_ip = WhitespaceTokens(data)[2]
        /\ old_port = WhitespaceTokens(data)[3]
        /\ new_ip = WhitespaceTokens(data)[4]
        /\ new_port = WhitespaceTokens(data)[5]

\* C8: a payload of fewer than 4 tokens produces no event: the file is not
\* read or written, twemproxy is not restarted, the warning is logged and
\* the loop goes on.
C8_FewerThanFourTokensDropped ==
    (HandlingMessage /\ Len(WhitespaceTokens(data)) < 4) =>
        /\ pc = "sleep"
        /\ ~read
        /\ write_outcome = ""
        /\ file = file0
        /\ reloads = 0
        /\ "warning: Wrong number of parameters" \in log

\* C9: after a failed attempt _connect stops retrying exactly when
\* limit > 0 and retry_count >= limit; with limit = 3 the decision after the
\* 4th failure is the first not to retry; with limit <= 0 every decision is
\* to retry, and _connect returns False only with the stop event set.
C9_RetryDecision ==
    /\ decision = "stop" => (limit > 0 /\ retry_count >= limit /\ stop_event)
    /\ decision = "retry" => (limit <= 0 \/ retry_count - 1 < limit)
    /\ (limit = 3 /\ failures > 0) => (decision = "stop" <=> failures = 4)
    /\ limit <= 0 => decision # "stop"
    /\ connect_ret = "False" => stop_event

\* With limit = 3, the decision after the 4th failed attempt.
C9_Witness == limit = 3 /\ failures = 4 /\ decision = "stop"

\* With limit <= 0, a retry after MaxAttempts failures.
C9_WitnessUnlimited == limit <= 0 /\ failures = MaxAttempts /\ decision = "retry"

\* C10, the states: _connect returns True only with the subscription made
\* and returns as soon as it is made; when the retries are exhausted the stop
\* event is set and False is returned; after False no message is polled, no
\* file read, no restart run.
C10_ConnectResult ==
    /\ connect_ret = "True" => pubsub = (IF pc = "exited" /\ pubsub = "closed"
                                         THEN "closed" ELSE "subscribed")
    /\ (b_connected /\ connect_ret = "") => pc = "connect_while"
    /\ decision = "stop" =>
        /\ stop_event
        /\ pc \in {"connect_while", "execute_if"}
        /\ pc = "execute_if" => connect_ret = "False"
    /\ connect_ret = "False" =>
        /\ pc \in {"execute_if", "log_stopped", "stopped", "exited"}
        /\ NoEvent /\ file = file0

\* C10: the above in every state, and after _connect returns False the
\* daemon reaches the stopped state (and the process exits from there).
C10_FalseStopsTheDaemon ==
    /\ []C10_ConnectResult
    /\ (connect_ret = "False") ~> (pc \in {"stopped", "exited"})

\* _connect about to return False after the retries are exhausted.
C10_Witness == pc = "execute_if" /\ connect_ret = "False" /\ decision = "stop"

\* ------------------------------------------- claims on shutdown and errors
ConnectPcs == {"connect_while", "connect_try", "backoff", "execute_if"}

\* C11: once the termination signal has set the stop event in a running
\* daemon (connecting, in a backoff sleep, waiting for a message or handling
\* one), the daemon goes on to the stopped state: no step ends it otherwise,
\* and the loop test that follows polls no further message.
C11_SignalledDaemonStops ==
    [][(stop_event /\ pc \in ConnectPcs \cup ListeningPcs) =>
          /\ pc' # "crashed"
          /\ pc = "loop" => pc' # "poll"]_vars

\* C12: a subscription that was made is closed when the daemon reaches the
\* stopped state (the line 'Beholder stopped' is logged after the close),
\* and it is not closed while the loop runs.
C12_ClosedBeforeStopped ==
    /\ (pc = "stopped" /\ connect_ret = "True") => pubsub = "closed"
    /\ pubsub = "closed" => pc \notin ListeningPcs

\* C13: when the configuration file cannot be opened or decoded, nothing is
\* written and the file is as it was, _update_masters reports no change
\* (None), twemproxy is not restarted, the error is logged and the loop goes
\* on to its next iteration.
C13_FailedLoadChangesNothing ==
    (read /\ (ret = "None" \/ file0.kind = "garbage")) =>
        /\ ret = "None"
        /\ exc = ""
        /\ write_outcome = ""
        /\ file = file0
        /\ reloads = 0
        /\ "error: Master update error" \in log
        /\ pc = "sleep"

\* An iteration whose load met an undecodable file.
C13_Witness == read /\ ret = "None" /\ file0.kind = "garbage" /\ pc = "sleep"

\* C14: when the write fails, _update_masters returns False whatever entries
\* matched, twemproxy is not restarted, and the loop goes on.
C14_FailedWriteReportsNoChange ==
    write_outcome \in {"open_failed", "truncated"} =>
        /\ ret = "False"
        /\ ~b_updated
        /\ reloads = 0
        /\ "warning: Could not updated the twemproxy configuration file" \in log
        /\ pc = "sleep"

\* A failed write after an entry matched.
C14_Witness ==
    /\ write_outcome \in {"open_failed", "truncated"}
    /\ AnyOldMaster(loaded, old_ip, old_port)
    /\ pc = "sleep"

\* C15: a reconciliation whose load succeeded has attempted a write once it
\* is over, whether or not an entry matched; when none matched it returns
\* False and a write that succeeds leaves the server lists as loaded.
C15_LoadedMeansOneWrite ==
    (read /\ ret # "None" /\ pc # "write") =>
        /\ write_outcome # ""
        /\ ~AnyOldMaster(loaded, old_ip, old_port) =>
            /\ ret = "False"
            /\ write_outcome = "ok" => ServersOf(file.doc) = ServersOf(loaded)

\* C16: a connection attempt that fails with the stop event already set
\* starts no backoff sleep.
C16_NoBackoffOnceStopping ==
    [][(pc = "connect_try" /\ stop_event) => pc' # "backoff"]_vars

\* C17: with the stop event set during an iteration, the iteration still
\* ends as it would have: after a load that succeeded the write has been
\* attempted and twemproxy restarted exactly when True was returned; and no
\* step leaves the reconciliation for the loop test or the stopped state.
C17_SignalDoesNotAbortEvent ==
    /\ []((stop_event /\ pc = "sleep" /\ read /\ ret # "None") =>
            /\ write_outcome # ""
            /\ reloads = (IF ret = "True" THEN 1 ELSE 0))
    /\ [][(stop_event /\ pc \in {"load", "write", "restart"}) =>
            pc' \notin {"loop", "log_stopped", "stopped", "exited"}]_vars

\* An iteration that restarted twemproxy with the stop event set.
C17_Witness == stop_event /\ pc = "sleep" /\ reloads = 1 /\ write_outcome = "ok"

\* C18: a message is received only at the poll, with nothing of an earlier
\* message in progress; a write or a restart is for the message received
\* last, so their order is the order of the messages.
C18_OneEventAtATime ==
    /\ [](/\ effect_of <= received
          /\ pc = "poll" => NoEvent
          /\ (write_outcome # "" \/ reloads > 0) => effect_of = received)
    /\ [][/\ received' # received =>
                (received' = received + 1 /\ pc = "poll" /\ NoEvent)
          /\ effect_of' >= effect_of
          /\ effect_of' # effect_of =>
                (effect_of' = received /\ pc \in {"write", "restart"})]_vars

\* The last of MaxEvents messages has had its write and its restart.
C18_Witness == received = MaxEvents /\ effect_of = MaxEvents /\ reloads = 1 /\ pc = "sleep"

\* C19: retry_count starts at 0, never decreases during _connect and never
\* exceeds a limit > 0; when the retries are exhausted there have been
\* limit + 1 failed attempts and limit backoff sleeps, the stop event is set
\* and False is returned.
C19_ExhaustionCounts ==
    /\ [](/\ pc \in {"main", "construct"} => retry_count = 0
          /\ limit > 0 => retry_count <= limit
          /\ failures = retry_count + (IF decision = "stop" THEN 1 ELSE 0)
          /\ sleeps = retry_count - (IF pc = "backoff" THEN 1 ELSE 0)
          /\ decision = "stop" =>
                /\ failures = limit + 1
                /\ sleeps = limit
                /\ stop_event
                /\ pc = "execute_if" => connect_ret = "False")
    /\ [][pc # "execute_if" => retry_count' >= retry_count]_vars

\* _connect about to return after the 4 failures a limit of 3 allows.
C19_Witness ==
    /\ limit = 3 /\ pc = "execute_if" /\ connect_ret = "False"
    /\ failures = 4 /\ sleeps = 3

\* C20: the pidfile the process created is there while it runs; however the
\* daemon ends (stopped, or an exception out of the constructor or out of
\* execute), the process removes it and exits with status 0. Status 1 is
\* that of a process that found another instance's pidfile.
C20_PidfileRemovedExitZero ==
    /\ pidfile = "own" <=> pc \notin {"main", "exited"}
    /\ pc # "exited" => exit_status = -1
    /\ pc = "exited" => exit_status = (IF pidfile = "other" THEN 1 ELSE 0)

\* The process has exited after an exception left execute().
C20_Witness == pc = "exited" /\ exc # "" /\ connect_ret = "True" /\ exit_status = 0

====
